---- MODULE Spec2Model ----
(***************************************************************************)
(* A model of the batch image-conversion engine of                        *)
(* gobackend/internal/utils/avif_utils.go, of its size calculator, and of  *)
(* the image format setting of gobackend/internal/config/config.go.        *)
(*                                                                         *)
(* Spec is the batch engine, FairSpec the same under fair scheduling,      *)
(* SizeSpec the calls of calculateTargetSize, ConfigSpec package config.   *)
(*                                                                         *)
(* One call of an entry point runs at a time.  The dispatcher (the        *)
(* goroutine executing the entry point), the worker goroutines and, for    *)
(* ConvertMultipleImagesToAvif, the goroutine that waits on the WaitGroup  *)
(* and closes the collector channels, each take one step per action.       *)
(*                                                                         *)
(* Go strings are sequences of chunks (TLA+ strings), so that formatting   *)
(* and joining are concatenations.  The Chinese literals of the source are *)
(* rendered in ASCII.  A nil slice and an empty slice are both <<>>.       *)
(***************************************************************************)
EXTENDS Integers, Sequences, FiniteSets, TLC

(***************************************************************************)
(* Bounds of the model.                                                    *)
(***************************************************************************)
\* longest list of paths in the generated payloads
MaxJobs == 4
\* largest concurrency argument (the smallest is -1)
MaxConcurrency == 3
\* the dimensions and bounds given to calculateTargetSize run up to MaxDim,
\* with some larger ones added
MaxDim == 3

(***************************************************************************)
(* Program constants.                                                      *)
(***************************************************************************)
\* avif_utils.go:68 and :270, the worker count used when concurrency <= 0
DefaultConcurrency == 4
\* avif_utils.go:316-317, the default bounds of a landscape original
LandscapeMaxWidth == 1280
LandscapeMaxHeight == 720
\* avif_utils.go:320-321, the default bounds of any other original
PortraitMaxWidth == 600
PortraitMaxHeight == 900
\* the width of the significand of a float64
SigBits == 53

(***************************************************************************)
(* Strings and errors.                                                     *)
(***************************************************************************)
\* the error value nil
NilErr == [nil |-> TRUE, msg |-> <<>>]
\* errors.New / fmt.Errorf: a non-nil error with message m
Err(m) == [nil |-> FALSE, msg |-> m]

\* strings.Join(elems, sep)
RECURSIVE Join(_, _)
Join(elems, sep) ==
  IF Len(elems) = 0 THEN <<>>
  ELSE IF Len(elems) = 1 THEN elems[1]
  ELSE elems[1] \o sep \o Join(Tail(elems), sep)

(***************************************************************************)
(* The serialized list: a sequence of JSON tokens.  Tokens are "[", "]",   *)
(* ",", a string literal (v is the string), a number and null.             *)
(***************************************************************************)
Tok(t, v) == [t |-> t, v |-> v]
LBRACK == Tok("[", <<>>)
RBRACK == Tok("]", <<>>)
COMMA == Tok(",", <<>>)
NUM == Tok("num", <<"1">>)
NULL == Tok("null", <<>>)
STR(s) == Tok("str", s)

IsScalar(tok) == tok.t \in {"str", "num", "null"}

\* toks[i..] reads  value ("," value)* "]"  and ends there
RECURSIVE ValidElems(_, _)
ValidElems(toks, i) ==
  /\ i + 1 <= Len(toks)
  /\ IsScalar(toks[i])
  /\ \/ toks[i + 1].t = "]" /\ i + 1 = Len(toks)
     \/ toks[i + 1].t = "," /\ ValidElems(toks, i + 2)

\* the syntax check json.Unmarshal makes before it decodes anything
ValidJSON(toks) ==
  \/ Len(toks) = 1 /\ IsScalar(toks[1])
  \/ Len(toks) = 2 /\ toks[1].t = "[" /\ toks[2].t = "]"
  \/ Len(toks) >= 3 /\ toks[1].t = "[" /\ ValidElems(toks, 2)

\* json.Unmarshal([]byte(jsonList), &imgPaths) with imgPaths a []string:
\* a syntax error decodes nothing; null leaves the slice nil; a value that is
\* not an array, or an element that is a number, is a type error; a null
\* element leaves the empty string.
Unmarshal(toks) ==
  IF ~ValidJSON(toks) THEN [err |-> Err(<<"invalid JSON">>), val |-> <<>>]
  ELSE IF toks[1].t = "null" THEN [err |-> NilErr, val |-> <<>>]
  ELSE IF toks[1].t # "["
    THEN [err |-> Err(<<"cannot unmarshal into []string">>), val |-> <<>>]
  ELSE LET elems == SelectSeq(SubSeq(toks, 2, Len(toks) - 1),
                              LAMBDA tok : tok.t # ",")
       IN [err |-> IF \E k \in 1..Len(elems) : elems[k].t = "num"
                     THEN Err(<<"cannot unmarshal number into string">>)
                     ELSE NilErr,
           val |-> [k \in 1..Len(elems) |->
                      IF elems[k].t = "str" THEN elems[k].v ELSE <<>>]]

(***************************************************************************)
(* The inputs.                                                             *)
(***************************************************************************)
\* the paths the generated lists are made of
PathPool == <<(<<"a.jpg">>), (<<"b.png">>)>>

\* the lists of at most MaxJobs paths that alternate the pool's paths: from
\* three paths on, a list names a path twice
PathLists ==
  {[k \in 1..n |-> PathPool[((k - 1) % Len(PathPool)) + 1]] : n \in 0..MaxJobs}

\* the JSON text of a list of strings
RECURSIVE EncodeElems(_)
EncodeElems(paths) ==
  IF Len(paths) = 0 THEN <<>>
  ELSE IF Len(paths) = 1 THEN <<STR(paths[1])>>
  ELSE <<STR(paths[1]), COMMA>> \o EncodeElems(Tail(paths))
Encode(paths) == <<LBRACK>> \o EncodeElems(paths) \o <<RBRACK>>

\* ten times the same path
TenItems == [k \in 1..10 |-> <<"a.jpg">>]

WellFormedPayloads ==
  {Encode(l) : l \in PathLists}
    \cup {<<NULL>>, <<LBRACK, NULL, COMMA, STR(<<"a.jpg">>), RBRACK>>}

\* "[1,2,", a list cut before its "]", a number among the strings, a bare
\* string, the empty text
MalformedPayloads ==
  {<<LBRACK, NUM, COMMA, NUM, COMMA>>,
   <<LBRACK, STR(<<"a.jpg">>), COMMA, STR(<<"b.png">>)>>,
   <<LBRACK, STR(<<"a.jpg">>), COMMA, NUM, RBRACK>>,
   <<STR(<<"a.jpg">>)>>,
   <<>>}

Payloads == WellFormedPayloads \cup MalformedPayloads

ConcurrencyArgs == (-1)..MaxConcurrency

\* the calls of ConvertMultipleImagesToAvif: every payload with every
\* concurrency, and the list of ten with concurrency 0
ConvertMultipleCalls ==
  (Payloads \X ConcurrencyArgs) \cup {<<Encode(TenItems), 0>>}


(***************************************************************************)
(* Paths and the file system.  A file name is a sequence of one-character  *)
(* strings; a path is the directory's path, "/" and the name.  A node is a *)
(* file or a directory: a directory has its entries in the order of their  *)
(* names (the order of os.ReadDir and of filepath.Walk), and may be        *)
(* unreadable; the root may not exist.                                     *)
(***************************************************************************)
File(name) ==
  [name |-> name, exists |-> TRUE, isDir |-> FALSE, readable |-> TRUE, entries |-> <<>>]
Dir(name, readable, entries) ==
  [name |-> name, exists |-> TRUE, isDir |-> TRUE, readable |-> readable, entries |-> entries]
Missing(name) ==
  [name |-> name, exists |-> FALSE, isDir |-> FALSE, readable |-> FALSE, entries |-> <<>>]

\* filepath.Join(dir, name) for a clean dir and a plain name
JoinPath(dir, name) == dir \o <<"/">> \o name

\* strings.ToLower on one character
LowerChar(c) ==
  CASE c = "A" -> "a" [] c = "B" -> "b" [] c = "C" -> "c" [] c = "D" -> "d"
    [] c = "E" -> "e" [] c = "F" -> "f" [] c = "G" -> "g" [] c = "H" -> "h"
    [] c = "I" -> "i" [] c = "J" -> "j" [] c = "K" -> "k" [] c = "L" -> "l"
    [] c = "M" -> "m" [] c = "N" -> "n" [] c = "O" -> "o" [] c = "P" -> "p"
    [] c = "Q" -> "q" [] c = "R" -> "r" [] c = "S" -> "s" [] c = "T" -> "t"
    [] c = "U" -> "u" [] c = "V" -> "v" [] c = "W" -> "w" [] c = "X" -> "x"
    [] c = "Y" -> "y" [] c = "Z" -> "z" [] OTHER -> c

\* strings.ToLower
ToLower(str) == [k \in 1..Len(str) |-> LowerChar(str[k])]

\* filepath.Ext: the suffix from the last "." of the last path element, empty
\* when that element has no "."
RECURSIVE ExtFrom(_, _)
ExtFrom(path, i) ==
  IF i < 1 \/ path[i] = "/" THEN <<>>
  ELSE IF path[i] = "." THEN SubSeq(path, i, Len(path))
  ELSE ExtFrom(path, i - 1)
Ext(path) == ExtFrom(path, Len(path))

\* the extensions of the switch at lines 152-153 and 224-225
SupportedExts ==
  {<<".", "j", "p", "g">>, <<".", "j", "p", "e", "g">>, <<".", "p", "n", "g">>,
   <<".", "w", "e", "b", "p">>}

\* faulty variant: the extension is compared as it is written
IsSupportedImageCaseSensitive(path) == Ext(path) \in SupportedExts
\* the test of the switch: the lower-cased extension is a supported one
IsSupportedImage(path) == ToLower(Ext(path)) \in SupportedExts

\* getImageType, lines 348-355
getImageType(path) ==
  LET ext == ToLower(Ext(path))
  IN IF Len(ext) > 0 /\ ext[1] = "." THEN Tail(ext) ELSE ext

\* the *PathError of os.ReadDir on a directory that is missing or cannot be
\* read, and of filepath.Walk on a directory it cannot open: Op is "open"
ReadError(path) == Err(<<"open ">> \o path \o <<": cannot read directory">>)

\* the *PathError filepath.Walk passes to walkFunc when os.Lstat fails on a
\* path that does not exist: Op is "lstat"
LstatError(path) == Err(<<"lstat ">> \o path \o <<": no such file or directory">>)

\* walkFunc of BatchProcessImagesToAvif (lines 212-229) under filepath.Walk
\* (line 234): the paths appended to imgPaths and the error that ends the walk
RECURSIVE WalkCollect(_, _), WalkCollectEntries(_, _, _)
WalkCollect(path, node) ==
  IF ~node.exists THEN [paths |-> <<>>, err |-> LstatError(path)]
  ELSE IF ~node.isDir
    THEN [paths |-> IF IsSupportedImage(path) THEN <<path>> ELSE <<>>, err |-> NilErr]
  ELSE IF ~node.readable THEN [paths |-> <<>>, err |-> ReadError(path)]
  ELSE WalkCollectEntries(path, node.entries, 1)
WalkCollectEntries(path, entries, k) ==
  IF k > Len(entries) THEN [paths |-> <<>>, err |-> NilErr]
  ELSE LET r == WalkCollect(JoinPath(path, entries[k].name), entries[k]) IN
         IF ~r.err.nil THEN r
         ELSE LET rest == WalkCollectEntries(path, entries, k + 1)
              IN [paths |-> r.paths \o rest.paths, err |-> rest.err]

\* the non-recursive branch, lines 237-256: os.ReadDir and walkFunc on every
\* entry that is not a directory
ReadDirCollect(path, node) ==
  IF ~node.exists \/ ~node.isDir \/ ~node.readable
    THEN [paths |-> <<>>, err |-> ReadError(path)]
  ELSE LET files == SelectSeq(node.entries, LAMBDA e : ~e.isDir)
           names == [k \in 1..Len(files) |-> JoinPath(path, files[k].name)]
       IN [paths |-> SelectSeq(names, IsSupportedImage), err |-> NilErr]

\* os.ReadDir(dirPath), lines 173 and 237: the entries in the order of their
\* names, or the error
ReadDir(path, node) ==
  IF ~node.exists \/ ~node.isDir \/ ~node.readable
    THEN [files |-> <<>>, err |-> ReadError(path)]
    ELSE [files |-> node.entries, err |-> NilErr]

\* one call filepath.Walk makes of its walkFunc: the path, whether info is a
\* directory, and the error Walk passes
WalkCall(path, isDir, err) == [path |-> path, isDir |-> isDir, err |-> err]

\* filepath.Walk(dirPath, walkFunc) of line 169, with a walkFunc that returns
\* the error it is passed (lines 141-143) and nil otherwise: the calls of
\* walkFunc in order.  Walk passes a root it cannot stat and a directory it
\* cannot read to walkFunc with the error, and stops at the first call that
\* returns an error.
RECURSIVE WalkCalls(_, _), WalkCallsEntries(_, _, _)
WalkCalls(path, node) ==
  IF ~node.exists THEN <<WalkCall(path, FALSE, LstatError(path))>>
  ELSE IF ~node.isDir THEN <<WalkCall(path, FALSE, NilErr)>>
  ELSE IF ~node.readable THEN <<WalkCall(path, TRUE, ReadError(path))>>
  ELSE <<WalkCall(path, TRUE, NilErr)>> \o WalkCallsEntries(path, node.entries, 1)
WalkCallsEntries(path, entries, k) ==
  IF k > Len(entries) THEN <<>>
  ELSE LET c == WalkCalls(JoinPath(path, entries[k].name), entries[k]) IN
         IF ~c[Len(c)].err.nil THEN c
         ELSE c \o WalkCallsEntries(path, entries, k + 1)

\* the directories the calls are made on
RootPath == <<"d">>
MixedDir ==
  Dir(RootPath, TRUE,
      <<File(<<"a", ".", "J", "P", "G">>),
        File(<<"n", ".", "t", "x", "t">>),
        Dir(<<"s">>, TRUE, <<File(<<"b", ".", "p", "n", "g">>), File(<<"m", "p", "4">>)>>),
        File(<<"w", ".", "w", "e", "b", "p">>)>>)
TwoEligibleDir ==
  Dir(RootPath, TRUE,
      <<File(<<"a", ".", "j", "p", "e", "g">>), File(<<"b", ".", "P", "n", "g">>),
        File(<<"c", ".", "m", "p", "4">>)>>)
BlockedSubDir ==
  Dir(RootPath, TRUE,
      <<File(<<"a", ".", "j", "p", "g">>),
        Dir(<<"s">>, FALSE, <<File(<<"b", ".", "p", "n", "g">>)>>),
        File(<<"z", ".", "p", "n", "g">>)>>)
\* a subdirectory whose own name ends like an image's
ImageNamedSubDir ==
  Dir(RootPath, TRUE,
      <<Dir(<<"p", ".", "p", "n", "g">>, TRUE, <<File(<<"c", ".", "J", "P", "E", "G">>)>>)>>)
EmptyDir == Dir(RootPath, TRUE, <<>>)
UnreadableDir == Dir(RootPath, FALSE, <<File(<<"a", ".", "j", "p", "g">>)>>)
MissingDir == Missing(RootPath)
TenFilesDir ==
  Dir(RootPath, TRUE,
      [k \in 1..10 |->
         File(<<"f", <<"0", "1", "2", "3", "4", "5", "6", "7", "8", "9">>[k],
                ".", "j", "p", "g">>)])

Dirs ==
  {MixedDir, TwoEligibleDir, BlockedSubDir, ImageNamedSubDir, EmptyDir,
   UnreadableDir, MissingDir}

\* the calls of BatchProcessImagesToAvif: every directory in both modes with
\* every concurrency, and the directory of ten files with concurrency 0
BatchProcessCalls ==
  (Dirs \X BOOLEAN \X ConcurrencyArgs) \cup {<<TenFilesDir, FALSE, 0>>}

\* the calls of ProcessDirectoryToAvifSync: every directory in both modes
ProcessDirectoryCalls == Dirs \X BOOLEAN

\* keepOriginal, useAvifExt and quality as a caller may pass them; no entry
\* point reads keepOriginal, and ConvertToAvif reads neither of the others
OptionArgs ==
  {[keepOriginal |-> FALSE, useAvifExt |-> TRUE, quality |-> 80],
   [keepOriginal |-> TRUE, useAvifExt |-> FALSE, quality |-> 0]}

(***************************************************************************)
(* float64.  A positive finite float64 is its significand, a sequence of   *)
(* SigBits bits that starts with 1, and the exponent of its last bit: the  *)
(* value is sig * 2^exp.  The operations give the exact result rounded to  *)
(* nearest, ties to even, as the hardware does.  Numbers that do not fit   *)
(* an integer of the checker are kept as sequences of bits.                *)
(***************************************************************************)
Zeros(n) == [k \in 1..n |-> 0]

\* bits without the zeros at its head
StripLeading(bits) ==
  IF \A k \in DOMAIN bits : bits[k] = 0 THEN <<>>
  ELSE LET first == CHOOSE k \in DOMAIN bits :
                      bits[k] = 1 /\ \A j \in 1..(k - 1) : bits[j] = 0
       IN SubSeq(bits, first, Len(bits))

\* the bits of a natural number below 2^width, the first the highest
BitsOfWidth(n, width) == [k \in 1..width |-> (n \div 2^(width - k)) % 2]

\* the bits of a natural number below 2^30 without zeros at the head
BitsOf(n) == StripLeading(BitsOfWidth(n, 30))

\* the natural number of a sequence of at most 30 bits
RECURSIVE ValOf(_)
ValOf(bits) ==
  IF Len(bits) = 0 THEN 0
  ELSE IF Len(bits) = 1 THEN bits[1]
  ELSE LET half == Len(bits) \div 2
       IN ValOf(SubSeq(bits, 1, half)) * 2^(Len(bits) - half)
            + ValOf(SubSeq(bits, half + 1, Len(bits)))

\* bits plus one, for bits that are not all ones
Increment(bits) ==
  LET i == CHOOSE k \in DOMAIN bits :
             bits[k] = 0 /\ \A j \in (k + 1)..Len(bits) : bits[j] = 1
  IN [k \in DOMAIN bits |-> IF k < i THEN bits[k] ELSE IF k = i THEN 1 ELSE 0]

\* the float64 nearest to (bits + f) * 2^exp, where bits starts with 1 and
\* 0 <= f < 1 with f # 0 exactly when sticky; ties go to the even significand
RoundToNearestEven(bits, sticky, exp) ==
  LET len == Len(bits) IN
    IF len <= SigBits
      THEN [sig |-> bits \o Zeros(SigBits - len), exp |-> exp - (SigBits - len)]
    ELSE
      LET keep == SubSeq(bits, 1, SigBits)
          guard == bits[SigBits + 1]
          rest == sticky \/ \E k \in (SigBits + 2)..len : bits[k] = 1
          up == guard = 1 /\ (rest \/ keep[SigBits] = 1)
      IN IF ~up THEN [sig |-> keep, exp |-> exp + (len - SigBits)]
         ELSE IF \A k \in DOMAIN keep : keep[k] = 1
           THEN [sig |-> <<1>> \o Zeros(SigBits - 1), exp |-> exp + (len - SigBits) + 1]
         ELSE [sig |-> Increment(keep), exp |-> exp + (len - SigBits)]

\* float64(n) for an int n, 0 < n < 2^30
F64FromInt(n) == RoundToNearestEven(BitsOf(n), FALSE, 0)

\* the constant 1.0
F64One == F64FromInt(1)

\* x written odd * 2^exp: the significand without the zeros at its end
OddPart(x) ==
  LET last == CHOOSE k \in DOMAIN x.sig :
                x.sig[k] = 1 /\ \A j \in (k + 1)..Len(x.sig) : x.sig[j] = 0
  IN [bits |-> SubSeq(x.sig, 1, last), exp |-> x.exp + (Len(x.sig) - last)]

\* 2^k modulo b, for b below 2^15
RECURSIVE PowMod2(_, _)
PowMod2(k, b) ==
  IF k = 0 THEN 1 % b
  ELSE LET h == PowMod2(k \div 2, b)
       IN (((h * h) % b) * (IF k % 2 = 1 THEN 2 ELSE 1)) % b

\* n bits of the quotient r / b after the binary point, for 0 <= r < b < 2^15,
\* and the remainder left: before bit k the remainder is r * 2^(k-1) mod b
DivBits(r, b, n) ==
  [bits |-> [k \in 1..n |-> IF 2 * ((r * PowMod2(k - 1, b)) % b) >= b THEN 1 ELSE 0],
   rem |-> (r * PowMod2(n, b)) % b]

\* x / y, for x and y whose odd parts are below 2^15
F64Div(x, y) ==
  LET a == OddPart(x)
      b == OddPart(y)
      an == ValOf(a.bits)
      bn == ValOf(b.bits)
      n == SigBits + 1 + Len(b.bits)
      d == DivBits(an % bn, bn, n)
  IN RoundToNearestEven(StripLeading(BitsOf(an \div bn) \o d.bits), d.rem # 0,
                        a.exp - b.exp - n)

\* the width of the pieces a long number is multiplied in
LimbBits == 15

\* the number bits in pieces of LimbBits bits, the lowest first
RECURSIVE LimbsOf(_)
LimbsOf(bits) ==
  IF Len(bits) <= LimbBits THEN <<ValOf(bits)>>
  ELSE <<ValOf(SubSeq(bits, Len(bits) - LimbBits + 1, Len(bits)))>>
         \o LimbsOf(SubSeq(bits, 1, Len(bits) - LimbBits))

\* the bits of limbs * k + carry, for 0 <= k < 2^15
RECURSIVE MulLimbs(_, _, _)
MulLimbs(limbs, k, carry) ==
  IF Len(limbs) = 0 THEN BitsOfWidth(carry, LimbBits)
  ELSE LET t == limbs[1] * k + carry
       IN MulLimbs(Tail(limbs), k, t \div 2^LimbBits)
            \o BitsOfWidth(t % 2^LimbBits, LimbBits)

\* bits * k
MulBits(bits, k) == StripLeading(MulLimbs(LimbsOf(bits), k, 0))

\* x * y, for x and y of which one has an odd part below 2^15
F64Mul(x, y) ==
  LET a == OddPart(x)
      b == OddPart(y)
      small == IF Len(a.bits) <= Len(b.bits) THEN a ELSE b
      big == IF Len(a.bits) <= Len(b.bits) THEN b ELSE a
  IN RoundToNearestEven(MulBits(big.bits, ValOf(small.bits)),
                        FALSE, a.exp + b.exp)

\* x < y
F64Less(x, y) ==
  IF x.exp # y.exp THEN x.exp < y.exp
  ELSE \E k \in DOMAIN x.sig :
         /\ x.sig[k] < y.sig[k]
         /\ \A j \in 1..(k - 1) : x.sig[j] = y.sig[j]

\* int(x): the integer part of x, for x below 2^30
F64ToInt(x) ==
  IF x.exp >= 0 THEN ValOf(x.sig \o Zeros(x.exp))
  ELSE IF -x.exp >= SigBits THEN 0
  ELSE ValOf(SubSeq(x.sig, 1, SigBits + x.exp))

(***************************************************************************)
(* calculateTargetSize, lines 310-345.                                     *)
(***************************************************************************)
\* the test of line 312
BoundsMissing(maxWidth, maxHeight) == maxWidth <= 0 \/ maxHeight <= 0

\* faulty variant: a square original takes the landscape bounds
DefaultBoundsSquareLandscape(originalWidth, originalHeight) ==
  IF originalWidth >= originalHeight
    THEN [maxWidth |-> LandscapeMaxWidth, maxHeight |-> LandscapeMaxHeight]
    ELSE [maxWidth |-> PortraitMaxWidth, maxHeight |-> PortraitMaxHeight]
\* lines 314-322: the default bounds by the orientation of the original
DefaultBounds(originalWidth, originalHeight) ==
  IF originalWidth > originalHeight
    THEN [maxWidth |-> LandscapeMaxWidth, maxHeight |-> LandscapeMaxHeight]
    ELSE [maxWidth |-> PortraitMaxWidth, maxHeight |-> PortraitMaxHeight]

calculateTargetSize(originalWidth, originalHeight, maxWidth, maxHeight) ==
  LET bounds == IF BoundsMissing(maxWidth, maxHeight)
                  THEN DefaultBounds(originalWidth, originalHeight)
                  ELSE [maxWidth |-> maxWidth, maxHeight |-> maxHeight]
      widthRatio == F64Div(F64FromInt(bounds.maxWidth), F64FromInt(originalWidth))
      heightRatio == F64Div(F64FromInt(bounds.maxHeight), F64FromInt(originalHeight))
      smaller == IF F64Less(heightRatio, widthRatio) THEN heightRatio ELSE widthRatio
      scaleRatio == IF F64Less(F64One, smaller) THEN F64One ELSE smaller
  IN [newWidth |-> F64ToInt(F64Mul(F64FromInt(originalWidth), scaleRatio)),
      newHeight |-> F64ToInt(F64Mul(F64FromInt(originalHeight), scaleRatio))]

\* the originals and the bounds of the calls: positive originals, bounds from
\* -1 on, and the sizes of the defaults, of a common screen, and a pair whose
\* quotient float64 rounds down
OriginalDims == (1..MaxDim) \cup {22, 1080, 1920}
BoundArgs == ((-1)..MaxDim) \cup {15, 720, 1280}
CalculateTargetSizeCalls ==
  [originalWidth : OriginalDims, originalHeight : OriginalDims,
   maxWidth : BoundArgs, maxHeight : BoundArgs]

(***************************************************************************)
(* The state.                                                              *)
(***************************************************************************)
VARIABLES
  fn,              \* the entry point being executed, "none" before the first call
  pc,              \* the dispatcher's position in it
  jsonList,        \* argument of ConvertMultipleImagesToAvif
  dirPath,         \* argument of the directory entry points: the directory's path
  dirNode,         \* the file system at dirPath
  recursive,       \* argument of the directory entry points
  argConcurrency,  \* history: the argument concurrency as the caller passed it
  concurrency,     \* the parameter concurrency, rewritten when it is <= 0
  imgPaths,        \* the local slice imgPaths
  jobs,            \* channel of jobs
  results,         \* channel of output paths
  errs,            \* channel of errors
  wg,              \* counter of the sync.WaitGroup
  workers,         \* the worker goroutines started by this call, in start order
  closer,          \* position of the goroutine of lines 101-105
  next,            \* index of the dispatcher's loop (workers started, jobs sent)
  successResults,  \* the local slice successResults
  combinedErr,     \* the local slice combinedErr
  count,           \* the local count of BatchProcessImagesToAvif
  logged,          \* number of failure lines written by log.Printf
  ret,             \* what the call returned
  taken,           \* history: per queue entry, how often a worker received it
  converted,       \* history: per queue entry, how often ConvertToAvif ran on it
  mainRecvs,       \* history: receive operations the dispatcher has completed
  panicked,        \* a goroutine panicked (send on or close of a closed channel)
  handed,          \* history: the paths ProcessDirectoryToAvifSync gave ConvertToAvif
  sizeArgs,        \* arguments of calculateTargetSize as the caller passed them
  sizeRet,         \* what calculateTargetSize returned
  ImageFormat,     \* config.ImageFormat, the package variable
  envImageFormat,  \* the environment variable IMAGE_FORMAT
  cfgPc,           \* "start" until func init of package config has run
  cfgCall          \* the last call of SetImageFormat or GetImageFormat: its
                   \* argument, what it returned and, as history, ImageFormat
                   \* before it

vars ==
  <<fn, pc, jsonList, dirPath, dirNode, recursive, argConcurrency, concurrency,
    imgPaths, jobs, results, errs, wg, workers, closer, next, successResults,
    combinedErr, count, logged, ret, taken, converted, mainRecvs, panicked,
    handed, sizeArgs, sizeRet, ImageFormat, envImageFormat, cfgPc, cfgCall>>

\* the arguments of the call in progress
args == <<jsonList, dirPath, dirNode, recursive, argConcurrency>>

\* the state of the size calculator and of package config, which the entry
\* points of the batch engine do not touch
lib == <<sizeArgs, sizeRet, ImageFormat, envImageFormat, cfgPc, cfgCall>>

\* faulty variant: a channel made one slot short
MakeChanOneShort(capacity) == [buf |-> <<>>, cap |-> capacity - 1, closed |-> FALSE]
\* make(chan T, capacity)
MakeChan(capacity) == [buf |-> <<>>, cap |-> capacity, closed |-> FALSE]

\* a channel variable before its make
NoChan == [buf |-> <<>>, cap |-> 0, closed |-> FALSE]

\* the loop variable imgPath of a worker that holds no job
NoPath == <<>>
NoOut == [outputPath |-> <<>>, err |-> NilErr]
NoRet == [paths |-> <<>>, count |-> 0, err |-> NilErr]

\* a goroutine at the head of its  for imgPath := range jobs
NewWorker == [pc |-> "range", imgPath |-> NoPath, out |-> NoOut]

(***************************************************************************)
(* ConvertToAvif, lines 24-27: the codec is disabled and every call fails. *)
(***************************************************************************)
\* variant: a codec that converts, writing the output next to the input
ConvertToAvifEnabled(imgPath, useAvifExt, quality) ==
  [outputPath |-> imgPath \o <<".avif">>, err |-> NilErr]
\* ConvertToAvif as the source has it
ConvertToAvif(imgPath, useAvifExt, quality) ==
  [outputPath |-> <<>>,
   err |-> Err(<<"AVIF support is temporarily unavailable, try again later">>)]

\* faulty variant: only a negative concurrency gets the default
NormalizeConcurrencyNegativeOnly(c) == IF c < 0 THEN DefaultConcurrency ELSE c
\* the concurrency in force, lines 67-69 and 269-271
NormalizeConcurrency(c) == IF c <= 0 THEN DefaultConcurrency ELSE c

\* faulty variant: the loop runs once more
CM_SpawnMoreOffByOne(i, c) == i <= c
\* the loop test  i < concurrency  of line 78
CM_SpawnMore(i, c) == i < c

\* the loop test  i < concurrency  of line 277
BP_SpawnMore(i, c) == i < c

\* faulty variant: every iteration sends the first path
JobAtFirst(paths, k) == [id |-> 1, imgPath |-> paths[1]]
\* the k-th job of the loop of lines 95-97 and 298-300; id tells the queue
\* entries apart
JobAt(paths, k) == [id |-> k, imgPath |-> paths[k]]

\* faulty variant: the collectors are closed without the join
CM_WaitReturnsAtOnce(counter) == TRUE
\* wg.Wait() of line 102 returns when the counter is zero
CM_WaitReturns(counter) == counter = 0

\* faulty variant: the call returns without the join
BP_WaitReturnsAtOnce(counter) == TRUE
\* wg.Wait() of line 304 returns when the counter is zero
BP_WaitReturns(counter) == counter = 0

\* faulty variant: the message does not name the path
ItemErrorNoPath(imgPath, err) == Err(<<"process ">> \o <<" failed: ">> \o err.msg)
\* fmt.Errorf("process %s failed: %w", imgPath, err), line 86
ItemError(imgPath, err) ==
  Err(<<"process ">> \o imgPath \o <<" failed: ">> \o err.msg)

\* fmt.Errorf("parsing JSON failed: %w", err), line 59
ParseError(err) == Err(<<"parsing JSON failed: ">> \o err.msg)

\* faulty variant: the decoding error is ignored
ParseFailedNever(u) == FALSE
\* the test  err != nil  of line 58
ParseFailed(u) == ~u.err.nil

\* faulty variant: no early return for the empty list
IsEmptyListNever(paths) == FALSE
\* the test  len(imgPaths) == 0  of line 62
IsEmptyList(paths) == Len(paths) = 0

\* faulty variant: the messages are joined with ", "
CombinedErrorComma(msgs) == Err(Join(msgs, <<", ">>))
\* errors.New(strings.Join(combinedErr, "; ")), line 121
CombinedError(msgs) == Err(Join(msgs, <<"; ">>))

\* calculateTargetSize before its first call
NoSizeArgs == [originalWidth |-> 1, originalHeight |-> 1, maxWidth |-> 1, maxHeight |-> 1]
NoSizeRet == [newWidth |-> 0, newHeight |-> 0]

\* config.go:16, the initial value of the package variable ImageFormat
DefaultImageFormat == "webp"
\* package config before the first call of an accessor
NoCfgCall == [fn |-> "none", format |-> "", ok |-> FALSE, got |-> "", before |-> ""]

\* no entry point of the batch engine has been called
EngineIdle ==
  /\ jsonList = <<>>
  /\ dirPath = <<>>
  /\ dirNode = Missing(<<>>)
  /\ recursive = FALSE
  /\ count = 0
  /\ logged = 0
  /\ argConcurrency = 0
  /\ concurrency = 0
  /\ imgPaths = <<>>
  /\ jobs = NoChan
  /\ results = NoChan
  /\ errs = NoChan
  /\ wg = 0
  /\ workers = <<>>
  /\ closer = "none"
  /\ next = 0
  /\ successResults = <<>>
  /\ combinedErr = <<>>
  /\ ret = NoRet
  /\ taken = <<>>
  /\ converted = <<>>
  /\ mainRecvs = 0
  /\ panicked = FALSE
  /\ handed = <<>>

\* calculateTargetSize has not been called
SizeIdle ==
  /\ sizeArgs = NoSizeArgs
  /\ sizeRet = NoSizeRet

\* package config of a process started with IMAGE_FORMAT unset, after func
\* init and before any call
ConfigReady ==
  /\ ImageFormat = DefaultImageFormat
  /\ envImageFormat = ""
  /\ cfgPc = "ready"
  /\ cfgCall = NoCfgCall

\* the process before the first call of an entry point
Init ==
  /\ fn = "none"
  /\ pc = "idle"
  /\ EngineIdle
  /\ SizeIdle
  /\ ConfigReady

\* the locals and the history of a call that has just been entered
FreshCall ==
  /\ imgPaths' = <<>>
  /\ jobs' = NoChan
  /\ results' = NoChan
  /\ errs' = NoChan
  /\ wg' = 0
  /\ workers' = <<>>
  /\ closer' = "none"
  /\ next' = 0
  /\ successResults' = <<>>
  /\ combinedErr' = <<>>
  /\ count' = 0
  /\ logged' = 0
  /\ ret' = NoRet
  /\ taken' = <<>>
  /\ converted' = <<>>
  /\ mainRecvs' = 0
  /\ panicked' = FALSE
  /\ handed' = <<>>

(***************************************************************************)
(* ConvertMultipleImagesToAvif, lines 55-125: the dispatcher.              *)
(***************************************************************************)
\* a caller enters ConvertMultipleImagesToAvif(jsonList, ..., concurrency, quality)
CallConvertMultiple ==
  /\ pc \in {"idle", "returned"}
  /\ \E call \in ConvertMultipleCalls :
       /\ jsonList' = call[1]
       /\ concurrency' = call[2]
       /\ argConcurrency' = call[2]
  /\ dirPath' = <<>>
  /\ dirNode' = Missing(<<>>)
  /\ recursive' = FALSE
  /\ fn' = "ConvertMultipleImagesToAvif"
  /\ pc' = "parse"
  /\ FreshCall
  /\ UNCHANGED lib

\* lines 56-75: decode the list, return early on an error or an empty list,
\* else normalize concurrency and make the three channels
CM_Parse ==
  /\ fn = "ConvertMultipleImagesToAvif" /\ pc = "parse"
  /\ LET u == Unmarshal(jsonList) IN
       IF ParseFailed(u) THEN
         /\ ret' = [paths |-> <<>>, count |-> 0, err |-> ParseError(u.err)]
         /\ pc' = "returned"
         /\ UNCHANGED <<imgPaths, concurrency, jobs, results, errs, taken, converted>>
       ELSE IF IsEmptyList(u.val) THEN
         /\ ret' = [paths |-> <<>>, count |-> 0, err |-> NilErr]
         /\ pc' = "returned"
         /\ imgPaths' = u.val
         /\ UNCHANGED <<concurrency, jobs, results, errs, taken, converted>>
       ELSE
         /\ imgPaths' = u.val
         /\ concurrency' = NormalizeConcurrency(concurrency)
         /\ jobs' = MakeChan(Len(u.val))
         /\ results' = MakeChan(Len(u.val))
         /\ errs' = MakeChan(Len(u.val))
         /\ taken' = [k \in 1..Len(u.val) |-> 0]
         /\ converted' = [k \in 1..Len(u.val) |-> 0]
         /\ pc' = "spawn"
         /\ ret' = ret
  /\ UNCHANGED <<lib, handed, fn, args, count, logged, wg, workers, closer, next, successResults,
                 combinedErr, mainRecvs, panicked>>

\* lines 78-92: one iteration of the loop that starts the workers
CM_Spawn ==
  /\ fn = "ConvertMultipleImagesToAvif" /\ pc = "spawn"
  /\ CM_SpawnMore(next, concurrency)
  /\ wg' = wg + 1
  /\ workers' = Append(workers, NewWorker)
  /\ next' = next + 1
  /\ UNCHANGED <<lib, handed, fn, pc, args, count, logged, concurrency, imgPaths, jobs, results,
                 errs, closer, successResults, combinedErr, ret, taken,
                 converted, mainRecvs, panicked>>

\* lines 95-97: one iteration of the loop that sends the jobs; the first
\* iteration follows the exit of the loop that starts the workers
CM_Send ==
  /\ fn = "ConvertMultipleImagesToAvif"
  /\ \/ pc = "spawn" /\ ~CM_SpawnMore(next, concurrency) /\ Len(jobs.buf) < jobs.cap
        /\ jobs' = [jobs EXCEPT !.buf = Append(@, JobAt(imgPaths, 1))]
        /\ next' = 1
     \/ pc = "send" /\ next < Len(imgPaths) /\ Len(jobs.buf) < jobs.cap
        /\ jobs' = [jobs EXCEPT !.buf = Append(@, JobAt(imgPaths, next + 1))]
        /\ next' = next + 1
  /\ pc' = "send"
  /\ UNCHANGED <<lib, handed, fn, args, count, logged, concurrency, imgPaths, results, errs, wg,
                 workers, closer, successResults, combinedErr, ret, taken,
                 converted, mainRecvs, panicked>>

\* lines 98-105: close(jobs) and start the goroutine that waits and closes
CM_CloseJobs ==
  /\ fn = "ConvertMultipleImagesToAvif" /\ pc = "send"
  /\ next >= Len(imgPaths)
  /\ jobs' = [jobs EXCEPT !.closed = TRUE]
  /\ panicked' = (panicked \/ jobs.closed)
  /\ closer' = "wait"
  /\ pc' = "rangeResults"
  /\ UNCHANGED <<lib, handed, fn, args, count, logged, concurrency, imgPaths, results, errs, wg,
                 workers, next, successResults, combinedErr, ret, taken,
                 converted, mainRecvs>>

\* lines 111-113: one receive of  for result := range results
CM_RangeResults ==
  /\ fn = "ConvertMultipleImagesToAvif" /\ pc = "rangeResults"
  /\ \/ /\ Len(results.buf) > 0
        /\ successResults' = Append(successResults, Head(results.buf))
        /\ results' = [results EXCEPT !.buf = Tail(@)]
        /\ pc' = pc
     \/ /\ Len(results.buf) = 0 /\ results.closed
        /\ pc' = "rangeErrs"
        /\ UNCHANGED <<successResults, results>>
  /\ mainRecvs' = mainRecvs + 1
  /\ UNCHANGED <<lib, handed, fn, args, count, logged, concurrency, imgPaths, jobs, errs, wg,
                 workers, closer, next, combinedErr, ret, taken, converted,
                 panicked>>

\* lines 115-117: one receive of  for err := range errs
CM_RangeErrs ==
  /\ fn = "ConvertMultipleImagesToAvif" /\ pc = "rangeErrs"
  /\ \/ /\ Len(errs.buf) > 0
        /\ combinedErr' = Append(combinedErr, Head(errs.buf).msg)
        /\ errs' = [errs EXCEPT !.buf = Tail(@)]
        /\ pc' = pc
     \/ /\ Len(errs.buf) = 0 /\ errs.closed
        /\ pc' = "return"
        /\ UNCHANGED <<combinedErr, errs>>
  /\ mainRecvs' = mainRecvs + 1
  /\ UNCHANGED <<lib, handed, fn, args, count, logged, concurrency, imgPaths, jobs, results, wg,
                 workers, closer, next, successResults, ret, taken, converted,
                 panicked>>

\* lines 120-124
CM_Return ==
  /\ fn = "ConvertMultipleImagesToAvif" /\ pc = "return"
  /\ ret' = IF Len(combinedErr) > 0
              THEN [paths |-> successResults, count |-> 0,
                    err |-> CombinedError(combinedErr)]
              ELSE [paths |-> successResults, count |-> 0, err |-> NilErr]
  /\ pc' = "returned"
  /\ UNCHANGED <<lib, handed, fn, args, count, logged, concurrency, imgPaths, jobs, results, errs,
                 wg, workers, closer, next, successResults, combinedErr, taken,
                 converted, mainRecvs, panicked>>


(***************************************************************************)
(* The worker goroutines, lines 80-91.                                     *)
(***************************************************************************)
\* receive of  for imgPath := range jobs  (line 82): take the head of the
\* queue and enter ConvertToAvif, or leave the loop and run wg.Done
CM_WorkerRange(w) ==
  /\ fn = "ConvertMultipleImagesToAvif"
  /\ w \in 1..Len(workers)
  /\ workers[w].pc = "range"
  /\ \/ /\ Len(jobs.buf) > 0
        /\ LET j == Head(jobs.buf) IN
             /\ workers' = [workers EXCEPT ![w] = [pc |-> "convert", imgPath |-> j.imgPath, out |-> NoOut]]
             /\ taken' = [taken EXCEPT ![j.id] = @ + 1]
             /\ converted' = [converted EXCEPT ![j.id] = @ + 1]
        /\ jobs' = [jobs EXCEPT !.buf = Tail(@)]
        /\ wg' = wg
     \/ /\ Len(jobs.buf) = 0 /\ jobs.closed
        /\ workers' = [workers EXCEPT ![w] = [pc |-> "exited", imgPath |-> NoPath, out |-> NoOut]]
        /\ wg' = wg - 1
        /\ UNCHANGED <<jobs, taken, converted>>
  /\ UNCHANGED <<lib, handed, fn, pc, args, count, logged, concurrency, imgPaths, results, errs,
                 closer, next, successResults, combinedErr, ret, mainRecvs,
                 panicked>>

\* line 84: ConvertToAvif returns to the worker
CM_WorkerConvert(w) ==
  /\ fn = "ConvertMultipleImagesToAvif"
  /\ w \in 1..Len(workers)
  /\ workers[w].pc = "convert"
  /\ \E o \in OptionArgs : workers' = [workers EXCEPT ![w] =
       [pc |-> "report", imgPath |-> @.imgPath,
        out |-> ConvertToAvif(@.imgPath, o.useAvifExt, o.quality)]]
  /\ UNCHANGED <<lib, handed, fn, pc, args, count, logged, concurrency, imgPaths, jobs, results,
                 errs, wg, closer, next, successResults, combinedErr, ret,
                 taken, converted, mainRecvs, panicked>>

\* lines 85-89: send the outcome on errs or on results; a send on a full
\* channel blocks, a send on a closed channel panics
CM_WorkerReport(w) ==
  /\ fn = "ConvertMultipleImagesToAvif"
  /\ w \in 1..Len(workers)
  /\ workers[w].pc = "report"
  /\ LET o == workers[w].out IN
       IF ~o.err.nil THEN
         /\ errs.closed \/ Len(errs.buf) < errs.cap
         /\ errs' = IF errs.closed THEN errs
                    ELSE [errs EXCEPT !.buf =
                            Append(@, ItemError(workers[w].imgPath, o.err))]
         /\ panicked' = (panicked \/ errs.closed)
         /\ UNCHANGED results
       ELSE
         /\ results.closed \/ Len(results.buf) < results.cap
         /\ results' = IF results.closed THEN results
                       ELSE [results EXCEPT !.buf = Append(@, o.outputPath)]
         /\ panicked' = (panicked \/ results.closed)
         /\ UNCHANGED errs
  /\ workers' = [workers EXCEPT ![w] = [pc |-> "range", imgPath |-> NoPath, out |-> NoOut]]
  /\ UNCHANGED <<lib, handed, fn, pc, args, count, logged, concurrency, imgPaths, jobs, wg,
                 closer, next, successResults, combinedErr, ret, taken,
                 converted, mainRecvs>>

(***************************************************************************)
(* The goroutine of lines 101-105.                                         *)
(***************************************************************************)
\* line 102: wg.Wait() returns
CloserWait ==
  /\ closer = "wait"
  /\ CM_WaitReturns(wg)
  /\ closer' = "closeResults"
  /\ UNCHANGED <<lib, handed, fn, pc, args, count, logged, concurrency, imgPaths, jobs, results,
                 errs, wg, workers, next, successResults, combinedErr, ret,
                 taken, converted, mainRecvs, panicked>>

\* line 103: close(results)
CloserCloseResults ==
  /\ closer = "closeResults"
  /\ results' = [results EXCEPT !.closed = TRUE]
  /\ panicked' = (panicked \/ results.closed)
  /\ closer' = "closeErrs"
  /\ UNCHANGED <<lib, handed, fn, pc, args, count, logged, concurrency, imgPaths, jobs, errs, wg,
                 workers, next, successResults, combinedErr, ret, taken,
                 converted, mainRecvs>>

\* line 104: close(errs), and the goroutine ends
CloserCloseErrs ==
  /\ closer = "closeErrs"
  /\ errs' = [errs EXCEPT !.closed = TRUE]
  /\ panicked' = (panicked \/ errs.closed)
  /\ closer' = "done"
  /\ UNCHANGED <<lib, handed, fn, pc, args, count, logged, concurrency, imgPaths, jobs, results,
                 wg, workers, next, successResults, combinedErr, ret, taken,
                 converted, mainRecvs>>

(***************************************************************************)
(* BatchProcessImagesToAvif, lines 208-307: the dispatcher.                *)
(***************************************************************************)
\* a caller enters BatchProcessImagesToAvif(dirPath, recursive, ..., concurrency, quality)
CallBatchProcess ==
  /\ pc \in {"idle", "returned"}
  /\ \E call \in BatchProcessCalls :
       /\ dirPath' = call[1].name
       /\ dirNode' = call[1]
       /\ recursive' = call[2]
       /\ concurrency' = call[3]
       /\ argConcurrency' = call[3]
  /\ jsonList' = <<>>
  /\ fn' = "BatchProcessImagesToAvif"
  /\ pc' = "enumerate"
  /\ FreshCall
  /\ UNCHANGED lib

\* faulty variant: the test of line 259 is missing, so that the pool runs on
\* what the walk collected before its error
BP_EnumerateIgnoresWalkError ==
  /\ fn = "BatchProcessImagesToAvif" /\ pc = "enumerate"
  /\ LET e == IF recursive THEN WalkCollect(dirPath, dirNode)
              ELSE ReadDirCollect(dirPath, dirNode) IN
       /\ imgPaths' = e.paths
       /\ IF ~recursive /\ ~e.err.nil THEN
            /\ ret' = [paths |-> <<>>, count |-> 0, err |-> e.err]
            /\ pc' = "returned"
            /\ UNCHANGED <<concurrency, jobs, taken, converted>>
          ELSE
            /\ concurrency' = NormalizeConcurrency(concurrency)
            /\ jobs' = MakeChan(Len(e.paths))
            /\ taken' = [k \in 1..Len(e.paths) |-> 0]
            /\ converted' = [k \in 1..Len(e.paths) |-> 0]
            /\ pc' = "spawn"
            /\ ret' = ret
  /\ UNCHANGED <<lib, handed, fn, args, results, errs, wg, workers, closer, next,
                 successResults, combinedErr, count, logged, mainRecvs, panicked>>

\* lines 210-274: collect the paths, return early on an enumeration error,
\* else normalize concurrency and make the job channel
BP_Enumerate ==
  /\ fn = "BatchProcessImagesToAvif" /\ pc = "enumerate"
  /\ LET e == IF recursive THEN WalkCollect(dirPath, dirNode)
              ELSE ReadDirCollect(dirPath, dirNode) IN
       /\ imgPaths' = e.paths
       /\ IF ~e.err.nil THEN
            /\ ret' = [paths |-> <<>>, count |-> 0, err |-> e.err]
            /\ pc' = "returned"
            /\ UNCHANGED <<concurrency, jobs, taken, converted>>
          ELSE
            /\ concurrency' = NormalizeConcurrency(concurrency)
            /\ jobs' = MakeChan(Len(e.paths))
            /\ taken' = [k \in 1..Len(e.paths) |-> 0]
            /\ converted' = [k \in 1..Len(e.paths) |-> 0]
            /\ pc' = "spawn"
            /\ ret' = ret
  /\ UNCHANGED <<lib, handed, fn, args, results, errs, wg, workers, closer, next,
                 successResults, combinedErr, count, logged, mainRecvs, panicked>>

\* lines 277-295: one iteration of the loop that starts the workers
BP_Spawn ==
  /\ fn = "BatchProcessImagesToAvif" /\ pc = "spawn"
  /\ BP_SpawnMore(next, concurrency)
  /\ wg' = wg + 1
  /\ workers' = Append(workers, NewWorker)
  /\ next' = next + 1
  /\ UNCHANGED <<lib, handed, fn, pc, args, concurrency, imgPaths, jobs, results, errs,
                 closer, successResults, combinedErr, count, logged, ret,
                 taken, converted, mainRecvs, panicked>>

\* lines 298-300: one iteration of the loop that sends the jobs; the first
\* iteration follows the exit of the loop that starts the workers
BP_Send ==
  /\ fn = "BatchProcessImagesToAvif"
  /\ \/ pc = "spawn" /\ ~BP_SpawnMore(next, concurrency) /\ Len(imgPaths) > 0
        /\ Len(jobs.buf) < jobs.cap
        /\ jobs' = [jobs EXCEPT !.buf = Append(@, JobAt(imgPaths, 1))]
        /\ next' = 1
     \/ pc = "send" /\ next < Len(imgPaths) /\ Len(jobs.buf) < jobs.cap
        /\ jobs' = [jobs EXCEPT !.buf = Append(@, JobAt(imgPaths, next + 1))]
        /\ next' = next + 1
  /\ pc' = "send"
  /\ UNCHANGED <<lib, handed, fn, args, concurrency, imgPaths, results, errs, wg, workers,
                 closer, successResults, combinedErr, count, logged, ret,
                 taken, converted, mainRecvs, panicked>>

\* line 301: close(jobs), after the last send or, with no path collected,
\* right after the loop that starts the workers
BP_CloseJobs ==
  /\ fn = "BatchProcessImagesToAvif"
  /\ \/ pc = "send" /\ next >= Len(imgPaths)
     \/ pc = "spawn" /\ ~BP_SpawnMore(next, concurrency) /\ Len(imgPaths) = 0
  /\ jobs' = [jobs EXCEPT !.closed = TRUE]
  /\ panicked' = (panicked \/ jobs.closed)
  /\ pc' = "wait"
  /\ UNCHANGED <<lib, handed, fn, args, concurrency, imgPaths, results, errs, wg, workers,
                 closer, next, successResults, combinedErr, count, logged, ret,
                 taken, converted, mainRecvs>>

\* lines 304-306: wg.Wait() returns when the counter is zero; return count, nil
BP_Wait ==
  /\ fn = "BatchProcessImagesToAvif" /\ pc = "wait"
  /\ BP_WaitReturns(wg)
  /\ ret' = [paths |-> <<>>, count |-> count, err |-> NilErr]
  /\ pc' = "returned"
  /\ UNCHANGED <<lib, handed, fn, args, concurrency, imgPaths, jobs, results, errs, wg,
                 workers, closer, next, successResults, combinedErr, count,
                 logged, taken, converted, mainRecvs, panicked>>

(***************************************************************************)
(* The worker goroutines of BatchProcessImagesToAvif, lines 279-294.       *)
(***************************************************************************)
\* receive of  for imgPath := range jobs  (line 281): take the head of the
\* queue and enter ConvertToAvif, or leave the loop and run wg.Done
BP_WorkerRange(w) ==
  /\ fn = "BatchProcessImagesToAvif"
  /\ w \in 1..Len(workers)
  /\ workers[w].pc = "range"
  /\ \/ /\ Len(jobs.buf) > 0
        /\ LET j == Head(jobs.buf) IN
             /\ workers' = [workers EXCEPT ![w] = [pc |-> "convert", imgPath |-> j.imgPath, out |-> NoOut]]
             /\ taken' = [taken EXCEPT ![j.id] = @ + 1]
             /\ converted' = [converted EXCEPT ![j.id] = @ + 1]
        /\ jobs' = [jobs EXCEPT !.buf = Tail(@)]
        /\ wg' = wg
     \/ /\ Len(jobs.buf) = 0 /\ jobs.closed
        /\ workers' = [workers EXCEPT ![w] = [pc |-> "exited", imgPath |-> NoPath, out |-> NoOut]]
        /\ wg' = wg - 1
        /\ UNCHANGED <<jobs, taken, converted>>
  /\ UNCHANGED <<lib, handed, fn, pc, args, concurrency, imgPaths, results, errs, closer,
                 next, successResults, combinedErr, count, logged, ret,
                 mainRecvs, panicked>>

\* faulty variant: count++ comes before the test of the error, so that every
\* attempt is counted
BP_WorkerConvertCountsAttempts(w) ==
  /\ fn = "BatchProcessImagesToAvif"
  /\ w \in 1..Len(workers)
  /\ workers[w].pc = "convert"
  /\ \E o \in OptionArgs :
       LET out == ConvertToAvif(workers[w].imgPath, o.useAvifExt, o.quality) IN
         /\ count' = count + 1
         /\ logged' = IF ~out.err.nil THEN logged + 1 ELSE logged
  /\ workers' = [workers EXCEPT ![w] = [pc |-> "range", imgPath |-> NoPath, out |-> NoOut]]
  /\ UNCHANGED <<lib, handed, fn, pc, args, concurrency, imgPaths, jobs, results,
                 errs, wg, closer, next, successResults, combinedErr, ret,
                 taken, converted, mainRecvs, panicked>>

\* lines 283-292: ConvertToAvif returns; a failure is logged and the loop
\* continues, a success increments count inside countMutex
BP_WorkerConvert(w) ==
  /\ fn = "BatchProcessImagesToAvif"
  /\ w \in 1..Len(workers)
  /\ workers[w].pc = "convert"
  /\ \E o \in OptionArgs :
       LET out == ConvertToAvif(workers[w].imgPath, o.useAvifExt, o.quality) IN
         IF ~out.err.nil
           THEN logged' = logged + 1 /\ count' = count
           ELSE count' = count + 1 /\ logged' = logged
  /\ workers' = [workers EXCEPT ![w] = [pc |-> "range", imgPath |-> NoPath, out |-> NoOut]]
  /\ UNCHANGED <<lib, handed, fn, pc, args, concurrency, imgPaths, jobs, results, errs, wg,
                 closer, next, successResults, combinedErr, ret, taken,
                 converted, mainRecvs, panicked>>

(***************************************************************************)
(* ProcessDirectoryToAvifSync, lines 137-195.  The caller's goroutine does *)
(* everything: there is no worker.                                         *)
(***************************************************************************)
\* a caller enters ProcessDirectoryToAvifSync(dirPath, recursive, ..., quality)
CallProcessDirectorySync ==
  /\ pc \in {"idle", "returned"}
  /\ \E call \in ProcessDirectoryCalls :
       /\ dirPath' = call[1].name
       /\ dirNode' = call[1]
       /\ recursive' = call[2]
       /\ pc' = IF call[2] THEN "walk" ELSE "readDir"
  /\ jsonList' = <<>>
  /\ concurrency' = 0
  /\ argConcurrency' = 0
  /\ fn' = "ProcessDirectoryToAvifSync"
  /\ FreshCall
  /\ UNCHANGED lib

\* faulty variant: every attempt is counted
PD_CountAttempts(n, err) == n + 1
\* lines 156-160: count++ is reached only when ConvertToAvif returned no error
PD_CountAfter(n, err) == IF err.nil THEN n + 1 ELSE n

\* faulty variant: the error of os.ReadDir is ignored
PD_ReadDirFailedNever(err) == FALSE
\* the test  err != nil  of line 174
PD_ReadDirFailed(err) == ~err.nil

\* walkFunc, lines 140-165, called with (path, info, err): an error is
\* returned as it is, a directory and a file of another type are skipped, an
\* image is given to ConvertToAvif, whose failure is logged
PD_walkFunc(path, isDir, err) ==
  IF err.nil /\ ~isDir /\ IsSupportedImage(path) THEN
    /\ handed' = Append(handed, path)
    /\ \E o \in OptionArgs :
         LET out == ConvertToAvif(path, o.useAvifExt, o.quality) IN
           /\ count' = PD_CountAfter(count, out.err)
           /\ logged' = IF out.err.nil THEN logged ELSE logged + 1
  ELSE UNCHANGED <<handed, count, logged>>

\* lines 168-170, recursive: filepath.Walk makes its next call of walkFunc;
\* a call that returns an error ends the walk, and  return count, err
PD_WalkStep ==
  /\ fn = "ProcessDirectoryToAvifSync" /\ pc = "walk"
  /\ next < Len(WalkCalls(dirPath, dirNode))
  /\ LET c == WalkCalls(dirPath, dirNode)[next + 1] IN
       /\ PD_walkFunc(c.path, c.isDir, c.err)
       /\ IF ~c.err.nil
            THEN /\ ret' = [paths |-> <<>>, count |-> count, err |-> c.err]
                 /\ pc' = "returned"
            ELSE /\ ret' = ret
                 /\ pc' = pc
  /\ next' = next + 1
  /\ UNCHANGED <<lib, fn, args, concurrency, imgPaths, jobs, results, errs, wg,
                 workers, closer, successResults, combinedErr, taken, converted,
                 mainRecvs, panicked>>

\* lines 169-170: filepath.Walk returns nil after its last call of walkFunc
PD_WalkReturn ==
  /\ fn = "ProcessDirectoryToAvifSync" /\ pc = "walk"
  /\ next >= Len(WalkCalls(dirPath, dirNode))
  /\ ret' = [paths |-> <<>>, count |-> count, err |-> NilErr]
  /\ pc' = "returned"
  /\ UNCHANGED <<lib, handed, fn, args, concurrency, imgPaths, jobs, results, errs,
                 wg, workers, closer, next, successResults, combinedErr, count,
                 logged, taken, converted, mainRecvs, panicked>>

\* lines 173-176, not recursive: os.ReadDir, and  return 0, err  on its error
PD_ReadDir ==
  /\ fn = "ProcessDirectoryToAvifSync" /\ pc = "readDir"
  /\ IF PD_ReadDirFailed(ReadDir(dirPath, dirNode).err)
       THEN /\ ret' = [paths |-> <<>>, count |-> 0,
                       err |-> ReadDir(dirPath, dirNode).err]
            /\ pc' = "returned"
       ELSE /\ ret' = ret
            /\ pc' = "loop"
  /\ UNCHANGED <<lib, handed, fn, args, concurrency, imgPaths, jobs, results, errs,
                 wg, workers, closer, next, successResults, combinedErr, count,
                 logged, taken, converted, mainRecvs, panicked>>

\* lines 178-192: one iteration of  for _, file := range files ; a directory
\* is skipped, any other entry goes to walkFunc with a nil error
PD_LoopStep ==
  /\ fn = "ProcessDirectoryToAvifSync" /\ pc = "loop"
  /\ next < Len(ReadDir(dirPath, dirNode).files)
  /\ LET file == ReadDir(dirPath, dirNode).files[next + 1] IN
       IF file.isDir THEN UNCHANGED <<handed, count, logged>>
       ELSE PD_walkFunc(JoinPath(dirPath, file.name), FALSE, NilErr)
  /\ next' = next + 1
  /\ UNCHANGED <<lib, fn, pc, args, concurrency, imgPaths, jobs, results, errs, wg,
                 workers, closer, successResults, combinedErr, ret, taken,
                 converted, mainRecvs, panicked>>

\* line 193: return count, nil
PD_LoopReturn ==
  /\ fn = "ProcessDirectoryToAvifSync" /\ pc = "loop"
  /\ next >= Len(ReadDir(dirPath, dirNode).files)
  /\ ret' = [paths |-> <<>>, count |-> count, err |-> NilErr]
  /\ pc' = "returned"
  /\ UNCHANGED <<lib, handed, fn, args, concurrency, imgPaths, jobs, results, errs,
                 wg, workers, closer, next, successResults, combinedErr, count,
                 logged, taken, converted, mainRecvs, panicked>>

(***************************************************************************)
(* The specification.                                                      *)
(***************************************************************************)
Next ==
  \/ CallConvertMultiple
  \/ CM_Parse
  \/ CM_Spawn
  \/ CM_Send
  \/ CM_CloseJobs
  \/ CM_RangeResults
  \/ CM_RangeErrs
  \/ CM_Return
  \/ \E w \in 1..Len(workers) : CM_WorkerRange(w)
  \/ \E w \in 1..Len(workers) : CM_WorkerConvert(w)
  \/ \E w \in 1..Len(workers) : CM_WorkerReport(w)
  \/ CloserWait
  \/ CloserCloseResults
  \/ CloserCloseErrs
  \/ CallBatchProcess
  \/ BP_Enumerate
  \/ BP_Spawn
  \/ BP_Send
  \/ BP_CloseJobs
  \/ BP_Wait
  \/ \E w \in 1..Len(workers) : BP_WorkerRange(w)
  \/ \E w \in 1..Len(workers) : BP_WorkerConvert(w)
  \/ CallProcessDirectorySync
  \/ PD_WalkStep
  \/ PD_WalkReturn
  \/ PD_ReadDir
  \/ PD_LoopStep
  \/ PD_LoopReturn

Spec == Init /\ [][Next]_vars


(***************************************************************************)
(* Fair scheduling: a goroutine that can take a step is eventually run.    *)
(* A caller need not call again.                                           *)
(***************************************************************************)
GoroutineStep ==
  \/ CM_Parse \/ CM_Spawn \/ CM_Send \/ CM_CloseJobs
  \/ CM_RangeResults \/ CM_RangeErrs \/ CM_Return
  \/ \E w \in 1..Len(workers) :
       CM_WorkerRange(w) \/ CM_WorkerConvert(w) \/ CM_WorkerReport(w)
  \/ CloserWait \/ CloserCloseResults \/ CloserCloseErrs
  \/ BP_Enumerate \/ BP_Spawn \/ BP_Send \/ BP_CloseJobs \/ BP_Wait
  \/ \E w \in 1..Len(workers) : BP_WorkerRange(w) \/ BP_WorkerConvert(w)
  \/ PD_WalkStep \/ PD_WalkReturn \/ PD_ReadDir \/ PD_LoopStep \/ PD_LoopReturn

FairSpec == Spec /\ WF_vars(GoroutineStep)

(***************************************************************************)
(* The size calculator on its own: calls of calculateTargetSize.           *)
(***************************************************************************)
\* a caller has entered calculateTargetSize with any of the arguments
SizeInit ==
  /\ fn = "calculateTargetSize"
  /\ pc = "called"
  /\ EngineIdle
  /\ sizeArgs \in CalculateTargetSizeCalls
  /\ sizeRet = NoSizeRet
  /\ ConfigReady

\* lines 310-345: the function runs and returns
ReturnCalculateTargetSize ==
  /\ fn = "calculateTargetSize" /\ pc = "called"
  /\ sizeRet' = calculateTargetSize(sizeArgs.originalWidth, sizeArgs.originalHeight,
                                    sizeArgs.maxWidth, sizeArgs.maxHeight)
  /\ pc' = "returned"
  /\ UNCHANGED <<fn, args, concurrency, imgPaths, jobs, results, errs, wg, workers,
                 closer, next, successResults, combinedErr, count, logged, ret,
                 taken, converted, mainRecvs, panicked, handed, sizeArgs,
                 ImageFormat, envImageFormat, cfgPc, cfgCall>>

SizeNext == ReturnCalculateTargetSize

SizeSpec == SizeInit /\ [][SizeNext]_vars

(***************************************************************************)
(* Package config on its own: func init and the accessors of ImageFormat,  *)
(* config.go lines 16, 57-67 and 100-119.                                  *)
(***************************************************************************)
\* values of the environment variable IMAGE_FORMAT; "" is unset
EnvValues == {"", "webp", "avif", "AVIF", "png", "jpeg", " webp"}

\* arguments of SetImageFormat
FormatArgs == {"webp", "avif", "", "WEBP", "Avif", "png", "jpeg", "avif "}

\* the test of line 59
EnvFormatAccepted(imgFormat) == imgFormat = "avif" \/ imgFormat = "webp"

\* faulty variant: only the empty string is rejected
FormatAcceptedNotEmpty(format) == format # ""
\* the test of line 112
FormatAccepted(format) == format = "webp" \/ format = "avif"

\* the process starts with any IMAGE_FORMAT; func init has not run yet
ConfigInit ==
  /\ fn = "none"
  /\ pc = "idle"
  /\ EngineIdle
  /\ SizeIdle
  /\ ImageFormat = DefaultImageFormat
  /\ envImageFormat \in EnvValues
  /\ cfgPc = "start"
  /\ cfgCall = NoCfgCall

\* func init, lines 57-67: a supported IMAGE_FORMAT replaces the default
init ==
  /\ cfgPc = "start"
  /\ ImageFormat' = IF envImageFormat # "" /\ EnvFormatAccepted(envImageFormat)
                      THEN envImageFormat
                      ELSE ImageFormat
  /\ cfgPc' = "ready"
  /\ UNCHANGED <<fn, pc, args, concurrency, imgPaths, jobs, results, errs, wg,
                 workers, closer, next, successResults, combinedErr, count,
                 logged, ret, taken, converted, mainRecvs, panicked, handed,
                 sizeArgs, sizeRet, envImageFormat, cfgCall>>

\* SetImageFormat(format), lines 111-119
SetImageFormat(format) ==
  /\ cfgPc = "ready"
  /\ IF FormatAccepted(format)
       THEN /\ ImageFormat' = format
            /\ cfgCall' = [fn |-> "SetImageFormat", format |-> format, ok |-> TRUE,
                           got |-> "", before |-> ImageFormat]
       ELSE /\ ImageFormat' = ImageFormat
            /\ cfgCall' = [fn |-> "SetImageFormat", format |-> format, ok |-> FALSE,
                           got |-> "", before |-> ImageFormat]
  /\ UNCHANGED <<fn, pc, args, concurrency, imgPaths, jobs, results, errs, wg,
                 workers, closer, next, successResults, combinedErr, count,
                 logged, ret, taken, converted, mainRecvs, panicked, handed,
                 sizeArgs, sizeRet, envImageFormat, cfgPc>>

\* GetImageFormat(), lines 102-104
GetImageFormat ==
  /\ cfgPc = "ready"
  /\ cfgCall' = [fn |-> "GetImageFormat", format |-> "", ok |-> FALSE,
                 got |-> ImageFormat, before |-> ImageFormat]
  /\ UNCHANGED <<fn, pc, args, concurrency, imgPaths, jobs, results, errs, wg,
                 workers, closer, next, successResults, combinedErr, count,
                 logged, ret, taken, converted, mainRecvs, panicked, handed,
                 sizeArgs, sizeRet, ImageFormat, envImageFormat, cfgPc>>

ConfigNext ==
  \/ init
  \/ \E format \in FormatArgs : SetImageFormat(format)
  \/ GetImageFormat

ConfigSpec == ConfigInit /\ [][ConfigNext]_vars

(***************************************************************************)
(* Notions the properties are stated with.                                 *)
(***************************************************************************)
InConvertMultiple == fn = "ConvertMultipleImagesToAvif"
InBatchProcess == fn = "BatchProcessImagesToAvif"
Returned == pc = "returned"

\* the outcome of ConvertToAvif on a path, whatever the options
OutcomeOf(imgPath) ==
  LET o == CHOOSE x \in OptionArgs : TRUE
  IN ConvertToAvif(imgPath, o.useAvifExt, o.quality)

\* number of positions of seq that hold x
Count(seq, x) == Cardinality({k \in DOMAIN seq : seq[k] = x})

\* the same elements the same number of times
SameBag(s1, s2) ==
  /\ Len(s1) = Len(s2)
  /\ \A k \in DOMAIN s1 : Count(s1, s1[k]) = Count(s2, s1[k])

\* the pieces of a message between its "; " separators
RECURSIVE SplitOn(_, _)
SplitOn(msg, sep) ==
  IF \A k \in DOMAIN msg : msg[k] # sep THEN <<msg>>
  ELSE LET i == CHOOSE k \in DOMAIN msg :
                  msg[k] = sep /\ \A m \in 1..(k - 1) : msg[m] # sep
       IN <<SubSeq(msg, 1, i - 1)>> \o SplitOn(SubSeq(msg, i + 1, Len(msg)), sep)

\* the failure messages folded into a returned error
FailuresIn(err) == IF err.nil THEN <<>> ELSE SplitOn(err.msg, "; ")

\* the list a well-formed payload stands for, written without the decoder:
\* the elements between the brackets in order, a null element being the empty
\* string; the payload null stands for the empty list
ListOf(payload) ==
  LET inner == SubSeq(payload, 2, Len(payload) - 1)
      elems == SelectSeq(inner, LAMBDA tok : tok.t \in {"str", "null"})
  IN [k \in 1..Len(elems) |-> elems[k].v]

\* the queue entries converted so far whose conversion failed, succeeded
FailedItems ==
  SelectSeq([k \in 1..Len(converted) |-> k],
            LAMBDA k : converted[k] > 0 /\ ~OutcomeOf(imgPaths[k]).err.nil)
SucceededItems ==
  SelectSeq([k \in 1..Len(converted) |-> k],
            LAMBDA k : converted[k] > 0 /\ OutcomeOf(imgPaths[k]).err.nil)

\* the payload is one of the well-formed inputs
IsWellFormed(payload) == payload \in WellFormedPayloads \/ payload = Encode(TenItems)

\* the worker count the claims state for an argument concurrency
StatedWorkers(c) == IF c > 0 THEN c ELSE 4

\* the call in progress is one that runs the worker pool: a list call whose
\* payload holds at least one path, a directory call whose enumeration did
\* not fail
RunsPool ==
  \/ InConvertMultiple /\ IsWellFormed(jsonList) /\ Len(ListOf(jsonList)) > 0
  \/ InBatchProcess /\ pc # "enumerate" /\ ~(Returned /\ ~ret.err.nil)

WorkersExited == \A w \in 1..Len(workers) : workers[w].pc = "exited"
InProgress == Cardinality({w \in 1..Len(workers) : workers[w].pc = "convert"})

(***************************************************************************)
(* C1.  When ConvertMultipleImagesToAvif returns from a well-formed,       *)
(* non-empty payload of n paths, the number of returned success paths plus *)
(* the number of failure messages in the combined error is n.              *)
(***************************************************************************)
C1_EveryJobAccounted ==
  (InConvertMultiple /\ Returned /\ IsWellFormed(jsonList)
     /\ Len(ListOf(jsonList)) > 0)
    => Len(ret.paths) + Len(FailuresIn(ret.err)) = Len(ListOf(jsonList))

\* a call on three paths with two workers has returned
C1_Witness ==
  /\ InConvertMultiple /\ Returned
  /\ Len(ListOf(jsonList)) = 3 /\ IsWellFormed(jsonList)
  /\ argConcurrency = 2
  /\ Len(ret.paths) + Len(FailuresIn(ret.err)) = 3


(***************************************************************************)
(* C2.  As claimed: ConvertMultipleImagesToAvif returns a non-nil error    *)
(* exactly when at least one item's conversion failed, and then the        *)
(* success list holds the output path of every item that succeeded and the *)
(* message is the per-item failure messages joined with "; ".              *)
(***************************************************************************)
ErrorTellsItemFailures ==
  /\ ~ret.err.nil <=> Len(FailedItems) > 0
  /\ ~ret.err.nil =>
       /\ SameBag(ret.paths,
                  [k \in 1..Len(SucceededItems) |->
                     OutcomeOf(imgPaths[SucceededItems[k]]).outputPath])
       /\ SameBag(FailuresIn(ret.err),
                  [k \in 1..Len(FailedItems) |->
                     ItemError(imgPaths[FailedItems[k]],
                               OutcomeOf(imgPaths[FailedItems[k]]).err).msg])

\* C2 as claimed, for every call of ConvertMultipleImagesToAvif that returned
C2_Original == (InConvertMultiple /\ Returned) => ErrorTellsItemFailures

\* C2 as amended: the same, for a call whose payload is well-formed (a
\* malformed payload returns an error and no item was converted)
C2_ErrorIffItemFailed ==
  (InConvertMultiple /\ Returned /\ IsWellFormed(jsonList)) => ErrorTellsItemFailures

\* a call on two different paths has returned an error of two messages
C2_Witness ==
  /\ InConvertMultiple /\ Returned /\ IsWellFormed(jsonList)
  /\ ~ret.err.nil
  /\ Len(FailuresIn(ret.err)) = 2
  /\ Len(imgPaths) = 2 /\ imgPaths[1] # imgPaths[2]

(***************************************************************************)
(* C3.  In every state of a batch run of either entry point, the number of *)
(* ConvertToAvif invocations in progress is at most the normalized         *)
(* concurrency.                                                            *)
(***************************************************************************)
C3_BoundedInProgress ==
  (InConvertMultiple \/ InBatchProcess) => InProgress <= StatedWorkers(argConcurrency)

\* four conversions in progress while jobs still wait in the queue
C3_Witness ==
  /\ InConvertMultiple /\ argConcurrency = 0
  /\ InProgress = 4
  /\ Len(jobs.buf) > 0

(***************************************************************************)
(* C4.  No queue entry is received by two workers or converted twice, and  *)
(* when a call that runs the pool returns, every path of the list was      *)
(* enqueued, received once and converted once, and the queue is empty.     *)
(***************************************************************************)
C4_ExactlyOnce ==
  /\ \A k \in DOMAIN taken : taken[k] <= 1 /\ converted[k] <= 1
  /\ (Returned /\ RunsPool) =>
       /\ Len(taken) = Len(imgPaths)
       /\ \A k \in 1..Len(imgPaths) : taken[k] = 1 /\ converted[k] = 1
       /\ Len(jobs.buf) = 0

\* a directory run on three eligible files with two workers has returned
C4_Witness ==
  /\ InBatchProcess /\ Returned /\ RunsPool
  /\ Len(imgPaths) = 3 /\ argConcurrency = 2
  /\ \A k \in 1..3 : taken[k] = 1


(***************************************************************************)
(* C5.  Under fair scheduling every call of either entry point returns,    *)
(* for every job count and every concurrency, also one above the job       *)
(* count: the dispatcher always finds room in the job channel, a worker    *)
(* always finds room in the channel it reports on, and once the job        *)
(* channel is closed every worker exits.                                   *)
(***************************************************************************)
DispatcherAtSend ==
  \/ pc = "send" /\ next < Len(imgPaths)
  \/ pc = "spawn" /\ Len(workers) = concurrency /\ InConvertMultiple
  \/ pc = "spawn" /\ Len(workers) = concurrency /\ InBatchProcess /\ Len(imgPaths) > 0

NoSendBlocks ==
  /\ DispatcherAtSend => Len(jobs.buf) < jobs.cap
  /\ \A w \in 1..Len(workers) :
       workers[w].pc = "report" =>
         IF workers[w].out.err.nil THEN Len(results.buf) < results.cap
         ELSE Len(errs.buf) < errs.cap

\* C5: no send finds its channel full, every call that started returns, and
\* after close(jobs) all workers exit
C5_EveryCallReturns ==
  /\ []NoSendBlocks
  /\ (pc \notin {"idle", "returned"}) ~> Returned
  /\ jobs.closed ~> WorkersExited

\* a call with more workers than jobs has returned
C5_Witness ==
  /\ InConvertMultiple /\ Returned
  /\ Len(imgPaths) = 1 /\ Len(workers) = 4
  /\ errs.cap = 1 /\ jobs.cap = 1

(***************************************************************************)
(* C6.  When either entry point has returned, every worker the call        *)
(* started has exited and no ConvertToAvif invocation is in progress.      *)
(***************************************************************************)
C6_NoWorkerOutlivesCall ==
  (Returned /\ (InConvertMultiple \/ InBatchProcess)) =>
    WorkersExited /\ InProgress = 0 /\ wg = 0

\* a directory call that started four workers for ten files has returned
C6_Witness ==
  /\ InBatchProcess /\ Returned
  /\ Len(workers) = 4 /\ Len(imgPaths) = 10
  /\ WorkersExited

(***************************************************************************)
(* C7.  In ConvertMultipleImagesToAvif no receive of the dispatcher on     *)
(* results or errs completes before all workers were started and the last  *)
(* of them has exited.                                                     *)
(***************************************************************************)
C7_DrainAfterWorkersExit ==
  (InConvertMultiple /\ mainRecvs > 0) =>
    Len(workers) = StatedWorkers(argConcurrency) /\ WorkersExited

\* the dispatcher has seen results closed and received one error
C7_Witness ==
  /\ InConvertMultiple /\ pc = "rangeErrs"
  /\ mainRecvs = 2 /\ Len(combinedErr) = 1
  /\ Len(workers) = 2

(***************************************************************************)
(* C8.  A batch run starts concurrency workers when concurrency > 0 and 4  *)
(* when concurrency <= 0, never more and, once the start loop is done,     *)
(* never another number; a batch of 10 items with concurrency 0 returns    *)
(* and has then accounted for all 10 outcomes.                             *)
(***************************************************************************)
TenItemRun ==
  /\ argConcurrency = 0
  /\ \/ InConvertMultiple /\ jsonList = Encode(TenItems)
     \/ InBatchProcess /\ dirNode = TenFilesDir

WorkerCountAsStated ==
  /\ Len(workers) <= StatedWorkers(argConcurrency)
  /\ (RunsPool /\ pc \notin {"parse", "spawn"}) =>
       Len(workers) = StatedWorkers(argConcurrency)
  /\ (RunsPool /\ pc # "parse") =>
       concurrency = StatedWorkers(argConcurrency)
  /\ (TenItemRun /\ Returned /\ InConvertMultiple) =>
       Len(ret.paths) + Len(FailuresIn(ret.err)) = 10
  /\ (TenItemRun /\ Returned /\ InBatchProcess) =>
       ret.err.nil /\ ret.count + logged = 10

\* C8: the worker count is always the stated one, and the ten-item calls with
\* concurrency 0 return
C8_WorkerCount ==
  /\ []WorkerCountAsStated
  /\ (TenItemRun /\ ~Returned) ~> (TenItemRun /\ Returned)

\* the list of ten with concurrency 0 has returned, four workers started
C8_Witness ==
  /\ TenItemRun /\ Returned /\ InConvertMultiple
  /\ Len(workers) = 4
  /\ Len(FailuresIn(ret.err)) = 10

(***************************************************************************)
(* C9.  ConvertMultipleImagesToAvif on an empty list starts no worker,     *)
(* never invokes ConvertToAvif, and returns an empty success list and no   *)
(* error.                                                                  *)
(***************************************************************************)
C9_EmptyList ==
  (InConvertMultiple /\ IsWellFormed(jsonList) /\ Len(ListOf(jsonList)) = 0) =>
    /\ Len(workers) = 0
    /\ \A k \in DOMAIN converted : converted[k] = 0
    /\ pc # "parse" => (Returned /\ ret.paths = <<>> /\ ret.err.nil)

\* the call on "[]" has returned
C9_Witness ==
  /\ InConvertMultiple /\ Returned
  /\ jsonList = <<LBRACK, RBRACK>>
  /\ ret.paths = <<>> /\ ret.err.nil

(***************************************************************************)
(* C10.  ConvertMultipleImagesToAvif on a malformed payload starts no      *)
(* worker, never invokes ConvertToAvif, and returns the deserialization    *)
(* error and no success.                                                   *)
(***************************************************************************)
C10_MalformedFailsFast ==
  (InConvertMultiple /\ jsonList \in MalformedPayloads) =>
    /\ Len(workers) = 0
    /\ \A k \in DOMAIN converted : converted[k] = 0
    /\ pc # "parse" =>
         /\ Returned
         /\ ~ret.err.nil
         /\ Head(ret.err.msg) = "parsing JSON failed: "
         /\ ret.paths = <<>>

\* the call on "[1,2," has returned its error
C10_Witness ==
  /\ InConvertMultiple /\ Returned
  /\ jsonList = <<LBRACK, NUM, COMMA, NUM, COMMA>>
  /\ ~ret.err.nil

(***************************************************************************)
(* C11.  With the codec disabled every conversion fails: when              *)
(* ConvertMultipleImagesToAvif returns from a well-formed, non-empty list, *)
(* the success list is empty, the error is not nil, and the failure        *)
(* messages of its text name the paths of the list, each entry once.       *)
(***************************************************************************)
\* the path a failure message names: what stands between "process " and
\* " failed: "
PathNamed(m) ==
  LET i == CHOOSE k \in DOMAIN m :
             m[k] = " failed: " /\ \A j \in 1..(k - 1) : m[j] # " failed: "
  IN SubSeq(m, 2, i - 1)
PathsNamed(err) ==
  LET ms == FailuresIn(err) IN [k \in 1..Len(ms) |-> PathNamed(ms[k])]

\* every conversion of a path of the list fails
AllItemsFail(paths) == \A k \in DOMAIN paths : ~OutcomeOf(paths[k]).err.nil

C11_AllFail ==
  (InConvertMultiple /\ Returned /\ IsWellFormed(jsonList)
     /\ Len(ListOf(jsonList)) > 0 /\ AllItemsFail(ListOf(jsonList)))
    => /\ ret.paths = <<>>
       /\ ~ret.err.nil
       /\ \A k \in DOMAIN FailuresIn(ret.err) :
            Head(FailuresIn(ret.err)[k]) = "process "
       /\ SameBag(PathsNamed(ret.err), ListOf(jsonList))

\* the call on three paths, one of them twice, returned with three workers
C11_Witness ==
  /\ InConvertMultiple /\ Returned
  /\ ListOf(jsonList) = <<(<<"a.jpg">>), (<<"b.png">>), (<<"a.jpg">>)>>
  /\ argConcurrency = 3
  /\ ret.paths = <<>>
  /\ Count(PathsNamed(ret.err), <<"a.jpg">>) = 2
  /\ Count(PathsNamed(ret.err), <<"b.png">>) = 1

(***************************************************************************)
(* C12.  As claimed: ProcessDirectoryToAvifSync over a directory of two    *)
(* eligible files and one that is not gives exactly the two to             *)
(* ConvertToAvif and returns the count 2 and no error, although every      *)
(* conversion fails.                                                       *)
(***************************************************************************)
InSync == fn = "ProcessDirectoryToAvifSync"

\* the two eligible files of TwoEligibleDir, by their paths
TwoEligiblePaths ==
  <<(<<"d", "/", "a", ".", "j", "p", "e", "g">>),
    (<<"d", "/", "b", ".", "P", "n", "g">>)>>

\* the paths of a sequence whose conversion succeeds
Successes(paths) == SelectSeq(paths, LAMBDA q : OutcomeOf(q).err.nil)

\* C12 as claimed: the count returned is the number of attempts, 2
C12_Original ==
  (InSync /\ Returned /\ dirNode = TwoEligibleDir)
    => handed = TwoEligiblePaths /\ ret.count = 2 /\ ret.err.nil

\* C12 as amended: exactly the two eligible files are given to ConvertToAvif,
\* no error is returned, every failure is logged, and the count returned is
\* the number of conversions that succeeded
C12_SyncCountsSuccesses ==
  (InSync /\ Returned /\ dirNode = TwoEligibleDir)
    => /\ handed = TwoEligiblePaths
       /\ ret.err.nil
       /\ ret.count = Len(Successes(handed))
       /\ logged = Len(handed) - Len(Successes(handed))

\* the recursive call on that directory has returned 0 after two attempts
C12_Witness ==
  /\ InSync /\ Returned /\ dirNode = TwoEligibleDir /\ recursive
  /\ Len(handed) = 2 /\ logged = 2
  /\ ret.count = 0 /\ ret.err.nil

(***************************************************************************)
(* C13.  When BatchProcessImagesToAvif returns from a directory whose      *)
(* enumeration succeeds, every collected path was converted once, the      *)
(* count returned is the number of conversions that succeeded, every       *)
(* failure was logged, and the error is nil however many items failed.     *)
(***************************************************************************)
\* a directory of the tree cannot be read
RECURSIVE HasUnreadableDir(_)
HasUnreadableDir(node) ==
  /\ node.isDir
  /\ \/ ~node.readable
     \/ \E k \in DOMAIN node.entries : HasUnreadableDir(node.entries[k])

\* the enumeration of the directory fails: the root is missing or cannot be
\* read or, in recursive mode, a directory below it cannot be read
EnumerationFails(node, rec) ==
  \/ ~node.exists
  \/ node.isDir /\ ~node.readable
  \/ rec /\ HasUnreadableDir(node)

C13_CountIsSuccesses ==
  (InBatchProcess /\ Returned /\ ~EnumerationFails(dirNode, recursive))
    => /\ \A k \in DOMAIN converted : converted[k] = 1
       /\ ret.count = Len(SucceededItems)
       /\ logged = Len(FailedItems)
       /\ ret.err.nil

\* the recursive call on the mixed tree returned with three workers: three
\* conversions, all failed and logged, no error returned
C13_Witness ==
  /\ InBatchProcess /\ Returned /\ dirNode = MixedDir /\ recursive
  /\ Len(workers) = 3
  /\ Len(converted) = 3 /\ Len(FailedItems) = 3 /\ logged = 3
  /\ ret.count = 0 /\ ret.err.nil

(***************************************************************************)
(* C14.  As claimed: whenever a directory entry point returns an           *)
(* enumeration error, no ConvertToAvif invocation has been made and the    *)
(* count returned is 0.                                                    *)
(***************************************************************************)
InDirectoryCall == InSync \/ InBatchProcess

\* no path was given to ConvertToAvif in this call
NothingConverted ==
  /\ handed = <<>>
  /\ \A k \in DOMAIN converted : converted[k] = 0
  /\ \A w \in 1..Len(workers) : workers[w].pc # "convert"

\* C14 as claimed, for both entry points in both modes
C14_Original ==
  (InDirectoryCall /\ Returned /\ ~ret.err.nil)
    => NothingConverted /\ ret.count = 0

\* C14 as amended: a directory call returns an error exactly when the
\* enumeration fails.  In BatchProcessImagesToAvif and in the mode of
\* ProcessDirectoryToAvifSync that is not recursive, such a call never invokes
\* ConvertToAvif and returns the count 0.  The recursive
\* ProcessDirectoryToAvifSync has by then given ConvertToAvif the eligible
\* files the walk met before the directory it could not read, and returns the
\* number of them that were converted.
C14_EnumerationErrorIsFatal ==
  InDirectoryCall =>
    /\ Returned => (~ret.err.nil <=> EnumerationFails(dirNode, recursive))
    /\ (EnumerationFails(dirNode, recursive) /\ (InBatchProcess \/ ~recursive))
         => /\ NothingConverted
            /\ Len(workers) = 0
            /\ Returned => ret.count = 0
    /\ (EnumerationFails(dirNode, recursive) /\ InSync /\ recursive /\ Returned)
         => /\ handed = IF dirNode = BlockedSubDir
                          THEN <<(<<"d", "/", "a", ".", "j", "p", "g">>)>>
                          ELSE <<>>
            /\ ret.count = Len(Successes(handed))

\* the recursive batch call on the tree with an unreadable subdirectory has
\* returned the error, no worker started
C14_Witness ==
  /\ InBatchProcess /\ recursive /\ dirNode = BlockedSubDir
  /\ Returned /\ ~ret.err.nil /\ ret.count = 0
  /\ Len(workers) = 0 /\ NothingConverted

(***************************************************************************)
(* C15.  As claimed: for positive originals and positive bounds,           *)
(* calculateTargetSize returns a width and a height that exceed neither    *)
(* the bounds nor the original, and each is the floor of the original      *)
(* times min(maxWidth/originalWidth, maxHeight/originalHeight, 1).         *)
(***************************************************************************)
SizeReturned == fn = "calculateTargetSize" /\ pc = "returned"

\* floor(original * min(maxWidth/originalWidth, maxHeight/originalHeight, 1))
\* on both axes, in exact arithmetic
ExactTarget(originalWidth, originalHeight, maxWidth, maxHeight) ==
  IF maxWidth >= originalWidth /\ maxHeight >= originalHeight
    THEN [newWidth |-> originalWidth, newHeight |-> originalHeight]
  ELSE IF maxWidth * originalHeight <= maxHeight * originalWidth
    THEN [newWidth |-> maxWidth,
          newHeight |-> (originalHeight * maxWidth) \div originalWidth]
  ELSE [newWidth |-> (originalWidth * maxHeight) \div originalHeight,
        newHeight |-> maxHeight]

\* the result keeps within the bounds and within the original
WithinBounds ==
  /\ sizeRet.newWidth <= sizeArgs.maxWidth
  /\ sizeRet.newHeight <= sizeArgs.maxHeight
  /\ sizeRet.newWidth <= sizeArgs.originalWidth
  /\ sizeRet.newHeight <= sizeArgs.originalHeight

\* C15 as claimed
C15_Original ==
  (SizeReturned /\ sizeArgs.maxWidth > 0 /\ sizeArgs.maxHeight > 0)
    => /\ WithinBounds
       /\ sizeRet = ExactTarget(sizeArgs.originalWidth, sizeArgs.originalHeight,
                                sizeArgs.maxWidth, sizeArgs.maxHeight)

(***************************************************************************)
(* C16.  SetImageFormat returns true and sets the format exactly for       *)
(* "webp" and "avif"; for any other argument it returns false and leaves   *)
(* the format as it was.  After func init, whatever IMAGE_FORMAT was, and  *)
(* any calls of SetImageFormat, the format is "webp" or "avif" and         *)
(* GetImageFormat returns it.                                              *)
(***************************************************************************)
C16_SetImageFormat ==
  /\ cfgCall.fn = "SetImageFormat" =>
       /\ cfgCall.ok <=> cfgCall.format \in {"webp", "avif"}
       /\ ImageFormat = IF cfgCall.format \in {"webp", "avif"}
                          THEN cfgCall.format
                          ELSE cfgCall.before
  /\ cfgCall.fn = "GetImageFormat" =>
       cfgCall.got = ImageFormat /\ cfgCall.got \in {"webp", "avif"}
  /\ ImageFormat \in {"webp", "avif"}

\* started with IMAGE_FORMAT=avif, SetImageFormat("png") has returned false
\* and the format is still "avif"
C16_Witness ==
  /\ envImageFormat = "avif"
  /\ cfgCall.fn = "SetImageFormat" /\ cfgCall.format = "png" /\ ~cfgCall.ok
  /\ cfgCall.before = "avif" /\ ImageFormat = "avif"

(***************************************************************************)
(* C17.  In BatchProcessImagesToAvif no worker is started and no           *)
(* conversion is made unless the enumeration ended without an error and    *)
(* imgPaths holds every candidate; when the enumeration fails the call     *)
(* returns the count 0 and the error of the enumeration: the lstat error   *)
(* of a walk whose root does not exist, the open error otherwise.          *)
(***************************************************************************)
\* the name ends with ext, letter case aside
EndsWithFold(name, ext) ==
  /\ Len(name) >= Len(ext)
  /\ \A k \in DOMAIN ext : LowerChar(name[Len(name) - Len(ext) + k]) = ext[k]

\* the name ends with .jpg, .jpeg, .png or .webp
HasImageExtension(name) ==
  \/ EndsWithFold(name, <<".", "j", "p", "g">>)
  \/ EndsWithFold(name, <<".", "j", "p", "e", "g">>)
  \/ EndsWithFold(name, <<".", "p", "n", "g">>)
  \/ EndsWithFold(name, <<".", "w", "e", "b", "p">>)

\* the paths of the files of a tree whose names have an image extension
RECURSIVE ImagesUnder(_, _)
ImagesUnder(path, node) ==
  IF ~node.isDir THEN (IF HasImageExtension(node.name) THEN {path} ELSE {})
  ELSE UNION {ImagesUnder(JoinPath(path, node.entries[k].name), node.entries[k]) :
                k \in DOMAIN node.entries}

\* the paths of the files right under a directory whose names have an image
\* extension
ImagesIn(path, node) ==
  {JoinPath(path, node.entries[k].name) :
     k \in {j \in DOMAIN node.entries :
              ~node.entries[j].isDir /\ HasImageExtension(node.entries[j].name)}}

\* the candidates of a directory call
Candidates(path, node, rec) ==
  IF rec THEN ImagesUnder(path, node) ELSE ImagesIn(path, node)

\* the elements of a sequence
Range(seq) == {seq[k] : k \in DOMAIN seq}

\* the pool of this call has been started or a path has been converted
PoolStarted ==
  \/ Len(workers) > 0
  \/ \E k \in DOMAIN converted : converted[k] > 0

C17_EnumerateThenConvert ==
  InBatchProcess =>
    /\ PoolStarted =>
         /\ ~EnumerationFails(dirNode, recursive)
         /\ Range(imgPaths) = Candidates(dirPath, dirNode, recursive)
         /\ Len(imgPaths) = Cardinality(Candidates(dirPath, dirNode, recursive))
         /\ Len(converted) = Len(imgPaths)
    /\ (EnumerationFails(dirNode, recursive) /\ pc # "enumerate") =>
         /\ Returned
         /\ ret.count = 0
         /\ ~ret.err.nil
         /\ Head(ret.err.msg) =
              IF recursive /\ ~dirNode.exists THEN "lstat " ELSE "open "

\* in the recursive call on the mixed tree all three candidates are in
\* imgPaths and a worker converts while the dispatcher has jobs left to send
C17_Witness ==
  /\ InBatchProcess /\ recursive /\ dirNode = MixedDir
  /\ Len(imgPaths) = 3
  /\ pc = "send" /\ next < Len(imgPaths)
  /\ \E w \in 1..Len(workers) : workers[w].pc = "convert"

(***************************************************************************)
(* C18.  In ConvertMultipleImagesToAvif results and errs are closed only   *)
(* when every worker has exited; no worker sends on a closed channel and   *)
(* no channel is closed twice, either of which would panic; both are       *)
(* closed when the call returns.                                           *)
(***************************************************************************)
C18_CloseAfterWorkers ==
  InConvertMultiple =>
    /\ (results.closed \/ errs.closed) =>
         /\ Len(workers) = concurrency
         /\ WorkersExited
         /\ wg = 0
    /\ errs.closed => results.closed
    /\ ~panicked
    /\ pc = "rangeErrs" => results.closed
    /\ (closer = "done" \/ pc = "return" \/ (Returned /\ RunsPool))
         => results.closed /\ errs.closed

\* both collectors are closed with three failures still in errs, all three
\* workers gone
C18_Witness ==
  /\ InConvertMultiple /\ closer = "done"
  /\ results.closed /\ errs.closed
  /\ Len(workers) = 3 /\ WorkersExited
  /\ Len(errs.buf) = 3
  /\ ~panicked

(***************************************************************************)
(* C19.  A directory entry point gives ConvertToAvif only files whose      *)
(* lower-cased extension is .jpg, .jpeg, .png or .webp, from the whole     *)
(* tree in recursive mode and from the directory itself otherwise, never a *)
(* directory, and each once; when a call whose enumeration succeeds        *)
(* returns, it has given it all of them.                                   *)
(***************************************************************************)
\* the paths given to ConvertToAvif in this call, in a worker's hands or done
HandedPaths ==
  IF InSync THEN Range(handed)
  ELSE {imgPaths[k] : k \in {j \in DOMAIN converted : converted[j] > 0}}

\* the number of times a path was given to ConvertToAvif
TimesHanded(path) ==
  IF InSync THEN Count(handed, path)
  ELSE Cardinality({k \in DOMAIN converted : imgPaths[k] = path /\ converted[k] > 0})

C19_ExactlyTheImages ==
  InDirectoryCall =>
    /\ HandedPaths \subseteq Candidates(dirPath, dirNode, recursive)
    /\ \A path \in HandedPaths : TimesHanded(path) = 1
    /\ \A k \in DOMAIN converted : converted[k] <= 1
    /\ (Returned /\ ~EnumerationFails(dirNode, recursive))
         => HandedPaths = Candidates(dirPath, dirNode, recursive)

\* the batch call on the mixed tree, not recursive, returned: the two images
\* of the directory were converted, the one of the subdirectory was not
C19_Witness ==
  /\ InBatchProcess /\ ~recursive /\ dirNode = MixedDir /\ Returned
  /\ HandedPaths = {<<"d", "/", "a", ".", "J", "P", "G">>,
                    <<"d", "/", "w", ".", "w", "e", "b", "p">>}
  /\ <<"d", "/", "s", "/", "b", ".", "p", "n", "g">>
       \in ImagesUnder(dirPath, dirNode) \ HandedPaths

(***************************************************************************)
(* C20.  When maxWidth <= 0 or maxHeight <= 0, calculateTargetSize returns *)
(* what it returns for the same original with the bounds 1280x720 if the   *)
(* original is wider than high and 600x900 if not, a square one included;  *)
(* for 1920x1080 with both bounds 0 that is 1280x720.                      *)
(***************************************************************************)
C20_DefaultBounds ==
  (SizeReturned /\ (sizeArgs.maxWidth <= 0 \/ sizeArgs.maxHeight <= 0))
    => /\ sizeRet =
            IF sizeArgs.originalWidth > sizeArgs.originalHeight
              THEN calculateTargetSize(sizeArgs.originalWidth,
                                       sizeArgs.originalHeight, 1280, 720)
              ELSE calculateTargetSize(sizeArgs.originalWidth,
                                       sizeArgs.originalHeight, 600, 900)
       /\ (sizeArgs.originalWidth = 1920 /\ sizeArgs.originalHeight = 1080
             /\ sizeArgs.maxWidth = 0 /\ sizeArgs.maxHeight = 0)
            => sizeRet = [newWidth |-> 1280, newHeight |-> 720]

\* the call on 1920x1080 with both bounds 0 has returned 1280x720
C20_Witness ==
  /\ SizeReturned
  /\ sizeArgs = [originalWidth |-> 1920, originalHeight |-> 1080,
                 maxWidth |-> 0, maxHeight |-> 0]
  /\ sizeRet = [newWidth |-> 1280, newHeight |-> 720]

====
